---- MODULE Spec2Model ----
(***************************************************************************)
(* Bridge process orchestration of admin-backend/server.js.                *)
(*                                                                         *)
(* State: the persisted user store (users.json), the in-memory process     *)
(* table bridgeProcesses, the worker processes spawned so far, the         *)
(* per-user config artifact config_<id>.json, and the HTTP handlers that   *)
(* are suspended at `await killUserBridge(...)`.  Every handler runs       *)
(* synchronously up to that await and synchronously after it, so each      *)
(* handler is one action (no await) or two (before / after the await).     *)
(*                                                                         *)
(* killUserBridge also runs `wmic ... commandline like '%config_<id>%'`;   *)
(* the workers are spawned as `python mcp-pipe.py mcp-bridge.py` with the  *)
(* config path in their environment, not on their command line, so that    *)
(* sweep terminates none of them: what it contributes is the suspension.   *)
(* New users are created with search and weather off; the capability set   *)
(* over all flag values is the subject of the config generation alone.     *)
(***************************************************************************)
EXTENDS Integers, FiniteSets, Sequences, Bags, TLC

\* ---- bounds ----
MaxUsers == 2       \* user ids ever created
MaxPid == 2         \* worker processes ever spawned
MaxInFlight == 2    \* handlers suspended at the same time
MaxRequests == 4    \* state-changing requests issued in one run

UserIds == 1..MaxUsers
Pids == 1..MaxPid

\* ---- values ----
Null == 0           \* pid: null, and "no entry" in bridgeProcesses
Undefined == -1     \* proc.pid of a child that could not be launched
NoUser == 0

Endpoints == {"", "wss"}
ApiKeys == {"", "key"}
FeedIds == {"f1"}

\* a slot of data.users that holds no record with this id
AbsentUser ==
    [exists |-> FALSE, mcpEndpoint |-> "", braveEnabled |-> FALSE,
     braveApiKey |-> "", weatherEnabled |-> FALSE, feeds |-> {},
     status |-> "stopped", pid |-> Null]

EmptyStore == [u \in UserIds |-> AbsentUser]

NoFile == [present |-> FALSE, caps |-> {}, rssUser |-> NoUser]

\* a handler suspended at its await: the request, the locals it holds (user for
\* startUserBridge, data for stop and delete), and for the history the handle
\* its kill retired (old) and whether it is an update that switched search on
IdleSlot ==
    [kind |-> "idle", uid |-> NoUser, user |-> AbsentUser, data |-> EmptyStore,
     old |-> Null, flip |-> FALSE]

\* a process: its user, its state (unborn, live, exiting: terminated and its
\* exit notification pending, gone: notification processed) and for the history
\* how it ended: "killed", "own" (by itself, while registered for an existing
\* user), "stray" (by itself, otherwise); endpoint is the MCP_ENDPOINT of its
\* environment
NoProc == [user |-> NoUser, state |-> "unborn", exit |-> "", endpoint |-> ""]

VARIABLES
    users,            \* users.json: id -> record (AbsentUser when no record)
    nextId,           \* next fresh user id (`user_${Date.now()}`)
    bridgeProcesses,  \* userId -> pid of the registered handle, Null when no entry
    procs,            \* pid -> [user, state, exit, endpoint]
    nextPid,          \* next fresh process identifier
    artifact,         \* userId -> config_<id>.json
    reqs,             \* bag of the handlers suspended at their await
    issued,           \* requests issued so far
    crashed,          \* the server process died of an uncaught exception
    kinds,            \* history: userId -> the requests issued for it (see Issued)
    last              \* history: what the last step did

vars == <<users, nextId, bridgeProcesses, procs, nextPid, artifact, reqs,
          issued, crashed, kinds, last>>

\* what a step did: the operation, its user, the process it concerns, the
\* handler that completed in it (without its copy of the store), and for a step
\* of a stop how many stops of this user have run to completion back to back,
\* nothing else stepping in between, this one included (see StopRun), and for
\* an update the status its body carried ("" when it carried none)
Ev(op, u, p, req) ==
    [op |-> op, uid |-> u, pid |-> p, req |-> [req EXCEPT !.data = EmptyStore], run |-> 0,
     extra |-> ""]

MaxRun == 2          \* back-to-back stops counted in last.run

\* ---- pure helpers ----

\* generateUserConfig with the search test reading a field the record does not
\* have: the search capability is never included
ConfigCapsSearchDropped(user) ==
    (IF user.weatherEnabled THEN {"weather"} ELSE {}) \cup {"rss-news"}

\* generateUserConfig with line 76 testing the flag alone: search is included
\* for a user that has no key
ConfigCapsKeyIgnored(user) ==
    (IF user.braveEnabled THEN {"brave-search"} ELSE {})
    \cup (IF user.weatherEnabled THEN {"weather"} ELSE {})
    \cup {"rss-news"}

\* generateUserConfig: the capability keys written to config_<id>.json
ConfigCaps(user) ==
    (IF user.braveEnabled /\ user.braveApiKey # "" THEN {"brave-search"} ELSE {})
    \cup (IF user.weatherEnabled THEN {"weather"} ELSE {})
    \cup {"rss-news"}

generateUserConfig(user, u) == [present |-> TRUE, caps |-> ConfigCaps(user), rssUser |-> u]

\* killUserBridge, the part that runs before the exec callback: SIGKILL the
\* registered process and delete the entry
KilledProcs(u) ==
    IF bridgeProcesses[u] # Null
    THEN [procs EXCEPT ![bridgeProcesses[u]] =
              IF @.state = "live" THEN [@ EXCEPT !.state = "exiting", !.exit = "killed"] ELSE @]
    ELSE procs

KilledRegistry(u) == [bridgeProcesses EXCEPT ![u] = Null]

\* killUserBridge resolving only once the 'exit' event of the process it
\* killed has been handled
KillDoneAfterExit(q) == q.old # Null => procs[q.old].state = "gone"

\* lines 113-115: the exec callback resolves the promise, whatever happened
KillDone(q) == TRUE

\* the handlers suspended at their await
Suspended == BagToSet(reqs)
HasRoom == BagCardinality(reqs) < MaxInFlight
Suspend(q) == reqs (+) SetToBag({q})
Complete(q) == reqs (-) SetToBag({q})

\* starts that are suspended and will spawn once resumed
PendingStarts ==
    BagCardinality([q \in {x \in Suspended : x.kind \in {"start", "put"}} |-> reqs[q]])

CanIssue == ~crashed /\ issued < MaxRequests
CanSpawnLater == nextPid + PendingStarts <= MaxPid

\* the history of requests for u after one of kind k: the starts and stops in
\* order while there are at most two of them and nothing else, "other" after
Issued(u, k) ==
    [kinds EXCEPT ![u] = IF k \in {"start", "stop"} /\ @ # <<"other">> /\ Len(@) < 2
                         THEN Append(@, k) ELSE <<"other">>]

Init ==
    /\ users = EmptyStore
    /\ nextId = 1
    /\ bridgeProcesses = [u \in UserIds |-> Null]
    /\ procs = [p \in Pids |-> NoProc]
    /\ nextPid = 1
    /\ artifact = [u \in UserIds |-> NoFile]
    /\ reqs = EmptyBag
    /\ issued = 0
    /\ crashed = FALSE
    /\ kinds = [u \in UserIds |-> <<>>]
    /\ last = Ev("init", NoUser, Null, IdleSlot)

\* POST /api/users
CreateUser(ep, be, key, we) ==
    /\ CanIssue
    /\ nextId <= MaxUsers
    /\ users' = [users EXCEPT ![nextId] =
                    [exists |-> TRUE, mcpEndpoint |-> ep, braveEnabled |-> be,
                     braveApiKey |-> key, weatherEnabled |-> we, feeds |-> {},
                     status |-> "stopped", pid |-> Null]]
    /\ nextId' = nextId + 1
    /\ issued' = issued + 1
    /\ last' = Ev("create", nextId, Null, IdleSlot)
    /\ UNCHANGED <<bridgeProcesses, procs, nextPid, artifact, reqs, crashed, kinds>>

\* ---- PUT /api/users/:id ----

NoChange ==
    [setEp |-> FALSE, ep |-> "", setBe |-> FALSE, be |-> FALSE,
     setKey |-> FALSE, key |-> "", setWe |-> FALSE, we |-> FALSE,
     setFeeds |-> FALSE, feeds |-> {},
     setStatus |-> FALSE, status |-> "stopped", pid |-> Null]

\* request bodies: every field left undefined, or one of mcpEndpoint,
\* braveEnabled, braveApiKey given, or status and pid, which line 282 does not
\* pick up
Bodies ==
    {NoChange}
    \cup {[NoChange EXCEPT !.setEp = TRUE, !.ep = e] : e \in Endpoints}
    \cup {[NoChange EXCEPT !.setBe = TRUE, !.be = b] : b \in BOOLEAN}
    \cup {[NoChange EXCEPT !.setKey = TRUE, !.key = k] : k \in ApiKeys}
    \cup {[NoChange EXCEPT !.setStatus = TRUE, !.status = "running", !.pid = 1],
          [NoChange EXCEPT !.setStatus = TRUE, !.status = "stopped", !.pid = Null]}

\* the record merged with the whole body (Object.assign): a status and pid in
\* the body reach the store
ApplyBodyWhole(rec, b) ==
    [rec EXCEPT !.mcpEndpoint = IF b.setEp THEN b.ep ELSE @,
                !.braveEnabled = IF b.setBe THEN b.be ELSE @,
                !.braveApiKey = IF b.setKey THEN b.key ELSE @,
                !.weatherEnabled = IF b.setWe THEN b.we ELSE @,
                !.feeds = IF b.setFeeds THEN b.feeds ELSE @,
                !.status = IF b.setStatus THEN b.status ELSE @,
                !.pid = IF b.setStatus THEN b.pid ELSE @]

\* lines 282-289: the fields of the body that are not undefined are assigned
ApplyBody(rec, b) ==
    [rec EXCEPT !.mcpEndpoint = IF b.setEp THEN b.ep ELSE @,
                !.braveEnabled = IF b.setBe THEN b.be ELSE @,
                !.braveApiKey = IF b.setKey THEN b.key ELSE @,
                !.weatherEnabled = IF b.setWe THEN b.we ELSE @,
                !.feeds = IF b.setFeeds THEN b.feeds ELSE @]

\* line 294 without its test: every update restarts the bridge
RestartAlways(rec) == TRUE

\* line 294: the bridge is restarted if the record read says running
RestartNeeded(rec) == rec.status = "running"

\* status is not running: persist and respond
PutNoRestart(u, b) ==
    /\ CanIssue
    /\ users[u].exists
    /\ ~RestartNeeded(ApplyBody(users[u], b))
    /\ users' = [users EXCEPT ![u] = ApplyBody(@, b)]
    /\ issued' = issued + 1
    /\ kinds' = Issued(u, "put")
    /\ last' = [Ev("putNoRestart", u, Null, IdleSlot) EXCEPT
                    !.extra = IF b.setStatus THEN b.status ELSE ""]
    /\ UNCHANGED <<nextId, bridgeProcesses, procs, nextPid, artifact, reqs, crashed>>

\* status is running: persist, enter startUserBridge, suspend at its kill
PutRestartBegin(u, b) ==
    /\ CanIssue
    /\ HasRoom
    /\ CanSpawnLater
    /\ users[u].exists
    /\ RestartNeeded(ApplyBody(users[u], b))
    /\ users' = [users EXCEPT ![u] = ApplyBody(@, b)]
    /\ procs' = KilledProcs(u)
    /\ bridgeProcesses' = KilledRegistry(u)
    /\ reqs' = Suspend([kind |-> "put", uid |-> u,
                                    user |-> ApplyBody(users[u], b),
                                    data |-> EmptyStore,
                                    old |-> bridgeProcesses[u],
                                    flip |-> ~users[u].braveEnabled
                                             /\ ApplyBody(users[u], b).braveEnabled])
    /\ issued' = issued + 1
    /\ kinds' = Issued(u, "put")
    /\ last' = [Ev("putRestartBegin", u, bridgeProcesses[u], IdleSlot) EXCEPT
                    !.extra = IF b.setStatus THEN b.status ELSE ""]
    /\ UNCHANGED <<nextId, nextPid, artifact, crashed>>

\* ---- POST /api/users/:id/start ----

\* the start handler with a kill that holds the server while it runs: no start
\* begins while another handler is suspended
StartWhenIdle(u) == users[u].exists /\ users[u].mcpEndpoint # "" /\ reqs = EmptyBag

\* lines 325-334: the user is found and has an endpoint
StartAllowed(u) == users[u].exists /\ users[u].mcpEndpoint # ""

\* lines 332-334: 400, MCP Endpoint required
StartReject(u) ==
    /\ CanIssue
    /\ users[u].exists
    /\ users[u].mcpEndpoint = ""
    /\ issued' = issued + 1
    /\ kinds' = Issued(u, "start")
    /\ last' = Ev("startReject", u, Null, IdleSlot)
    /\ UNCHANGED <<users, nextId, bridgeProcesses, procs, nextPid, artifact, reqs, crashed>>

StartBegin(u) ==
    /\ CanIssue
    /\ HasRoom
    /\ CanSpawnLater
    /\ StartAllowed(u)
    /\ procs' = KilledProcs(u)
    /\ bridgeProcesses' = KilledRegistry(u)
    /\ reqs' = Suspend([kind |-> "start", uid |-> u,
                                    user |-> users[u], data |-> EmptyStore,
                                    old |-> bridgeProcesses[u], flip |-> FALSE])
    /\ issued' = issued + 1
    /\ kinds' = Issued(u, "start")
    /\ last' = Ev("startBegin", u, bridgeProcesses[u], IdleSlot)
    /\ UNCHANGED <<users, nextId, nextPid, artifact, crashed>>

\* ---- startUserBridge after `await killUserBridge` (lines 122-168) ----

\* lines 160-166: re-read the store, mark the user running with proc.pid
StartStore(u, pid) ==
    IF users[u].exists
    THEN [users EXCEPT ![u].status = "running", ![u].pid = pid]
    ELSE users

\* lines 122-125: no endpoint in the record passed in, return false
StartSkip(q) ==
    /\ ~crashed
    /\ KillDone(q)
    /\ q.kind \in {"start", "put"}
    /\ q.user.mcpEndpoint = ""
    /\ reqs' = Complete(q)
    /\ last' = Ev("startSkip", q.uid, Null, q)
    /\ UNCHANGED <<users, nextId, bridgeProcesses, procs, nextPid, artifact, issued,
                   crashed, kinds>>

\* the child is launched
StartOk(q) ==
    LET u == q.uid IN
    /\ ~crashed
    /\ KillDone(q)
    /\ q.kind \in {"start", "put"}
    /\ q.user.mcpEndpoint # ""
    /\ nextPid <= MaxPid
    /\ artifact' = [artifact EXCEPT ![u] = generateUserConfig(q.user, u)]
    /\ procs' = [procs EXCEPT ![nextPid] = [user |-> u, state |-> "live", exit |-> "",
                                           endpoint |-> q.user.mcpEndpoint]]
    /\ nextPid' = nextPid + 1
    /\ bridgeProcesses' = [bridgeProcesses EXCEPT ![u] = nextPid]
    /\ users' = StartStore(u, nextPid)
    /\ reqs' = Complete(q)
    /\ last' = Ev(IF q.kind = "put" THEN "restartOk" ELSE "startOk", u, nextPid, q)
    /\ UNCHANGED <<nextId, issued, crashed, kinds>>

\* fs.writeFileSync in generateUserConfig throws, or spawn throws: the async
\* function rejects and nothing after the throw runs.  The handler awaits it
\* with no catch: the rejection is unhandled, which ends the server process or
\* leaves the request without a response, depending on the runtime.
StartThrows(q, wrote, dies) ==
    LET u == q.uid IN
    /\ ~crashed
    /\ KillDone(q)
    /\ q.kind \in {"start", "put"}
    /\ q.user.mcpEndpoint # ""
    /\ artifact' = IF wrote
                   THEN [artifact EXCEPT ![u] = generateUserConfig(q.user, u)]
                   ELSE artifact
    /\ crashed' = dies
    /\ reqs' = IF dies THEN EmptyBag ELSE Complete(q)
    /\ bridgeProcesses' = IF dies THEN [v \in UserIds |-> Null] ELSE bridgeProcesses
    /\ last' = Ev("startThrows", u, Null, q)
    /\ UNCHANGED <<users, nextId, procs, nextPid, issued, kinds>>

\* spawn returns a child that was not launched (ENOENT and the like): proc.pid
\* is undefined, lines 143-168 run as for a launched child, and the 'error'
\* event emitted on the next tick has no listener, which ends the server.
StartNotLaunched(q) ==
    LET u == q.uid IN
    /\ ~crashed
    /\ KillDone(q)
    /\ q.kind \in {"start", "put"}
    /\ q.user.mcpEndpoint # ""
    /\ artifact' = [artifact EXCEPT ![u] = generateUserConfig(q.user, u)]
    /\ users' = StartStore(u, Undefined)
    /\ crashed' = TRUE
    /\ reqs' = EmptyBag
    /\ bridgeProcesses' = [v \in UserIds |-> Null]
    /\ last' = Ev("startNotLaunched", u, Undefined, q)
    /\ UNCHANGED <<nextId, procs, nextPid, issued, kinds>>

\* ---- POST /api/users/:id/stop ----

\* a stop is refused for a user that has no registered worker
StopNeedsHandle(u) == users[u].exists /\ bridgeProcesses[u] # Null

\* lines 341-346: the user is found
StopAllowed(u) == users[u].exists

\* the stops of u completed back to back just before this step
StopRun(u) == IF last.op = "stopDone" /\ last.uid = u THEN last.run ELSE 0

\* q is the stop that the step before suspended, and nothing ran since
JustBegun(q) ==
    /\ last.op = "stopBegin" /\ last.uid = q.uid /\ last.pid = q.old
    /\ q.data = users

StopBegin(u) ==
    /\ CanIssue
    /\ HasRoom
    /\ StopAllowed(u)
    /\ procs' = KilledProcs(u)
    /\ bridgeProcesses' = KilledRegistry(u)
    /\ reqs' = Suspend([kind |-> "stop", uid |-> u,
                                    user |-> AbsentUser, data |-> users,
                                    old |-> bridgeProcesses[u], flip |-> FALSE])
    /\ issued' = issued + 1
    /\ kinds' = Issued(u, "stop")
    /\ last' = [Ev("stopBegin", u, bridgeProcesses[u], IdleSlot) EXCEPT !.run = StopRun(u)]
    /\ UNCHANGED <<users, nextId, nextPid, artifact, crashed>>

\* lines 350-354 without line 353: the pid is left in the record
StopStoreKeepsPid(data, u) == [data EXCEPT ![u].status = "stopped"]

\* lines 350-354: the store read at line 341 is changed and written back
StopStore(data, u) == [data EXCEPT ![u].status = "stopped", ![u].pid = Null]

StopResume(q) ==
    /\ ~crashed
    /\ KillDone(q)
    /\ q.kind = "stop"
    /\ users' = StopStore(q.data, q.uid)
    /\ reqs' = Complete(q)
    /\ last' = [Ev("stopDone", q.uid, Null, q) EXCEPT
                    !.run = IF JustBegun(q) THEN IF last.run < MaxRun THEN last.run + 1 ELSE MaxRun
                            ELSE 0]
    /\ UNCHANGED <<nextId, bridgeProcesses, procs, nextPid, artifact, issued, crashed, kinds>>

\* ---- DELETE /api/users/:id ----

DeleteBegin(u) ==
    /\ CanIssue
    /\ HasRoom
    /\ users[u].exists
    /\ procs' = KilledProcs(u)
    /\ bridgeProcesses' = KilledRegistry(u)
    /\ reqs' = Suspend([kind |-> "delete", uid |-> u,
                                    user |-> AbsentUser, data |-> users,
                                    old |-> bridgeProcesses[u], flip |-> FALSE])
    /\ issued' = issued + 1
    /\ kinds' = Issued(u, "delete")
    /\ last' = Ev("deleteBegin", u, bridgeProcesses[u], IdleSlot)
    /\ UNCHANGED <<users, nextId, nextPid, artifact, crashed>>

\* lines 316-317: the record is spliced out of the store read at line 302
DeleteStore(data, u) == [data EXCEPT ![u] = AbsentUser]

DeleteResume(q) ==
    /\ ~crashed
    /\ KillDone(q)
    /\ q.kind = "delete"
    /\ artifact' = [artifact EXCEPT ![q.uid] = NoFile]
    /\ users' = DeleteStore(q.data, q.uid)
    /\ reqs' = Complete(q)
    /\ last' = Ev("deleteDone", q.uid, Null, q)
    /\ UNCHANGED <<nextId, bridgeProcesses, procs, nextPid, issued, crashed, kinds>>

\* ---- worker termination ----

\* a live worker terminates on its own
ProcExit(p) ==
    /\ ~crashed
    /\ procs[p].state = "live"
    /\ procs' = [procs EXCEPT ![p].state = "exiting",
                               ![p].exit = IF bridgeProcesses[procs[p].user] = p
                                              /\ users[procs[p].user].exists
                                           THEN "own" ELSE "stray"]
    /\ last' = Ev("procExit", procs[p].user, p, IdleSlot)
    /\ UNCHANGED <<users, nextId, bridgeProcesses, nextPid, artifact, reqs, issued,
                   crashed, kinds>>

\* lines 150-156 without line 154: the pid is left in the record
ExitStoreKeepsPid(u) ==
    IF users[u].exists THEN [users EXCEPT ![u].status = "stopped"] ELSE users

\* lines 150-156 without line 153: the status is left as it is
ExitStoreKeepsStatus(u) ==
    IF users[u].exists THEN [users EXCEPT ![u].pid = Null] ELSE users

\* lines 150-156
ExitStore(u) ==
    IF users[u].exists
    THEN [users EXCEPT ![u].status = "stopped", ![u].pid = Null]
    ELSE users

\* line 147
ExitRegistry(u, p) == [bridgeProcesses EXCEPT ![u] = Null]

\* proc.on('exit'): the termination notification of p is processed
ExitNotify(p) ==
    /\ ~crashed
    /\ procs[p].state = "exiting"
    /\ procs' = [procs EXCEPT ![p].state = "gone"]
    /\ bridgeProcesses' = ExitRegistry(procs[p].user, p)
    /\ users' = ExitStore(procs[p].user)
    /\ last' = Ev("exitNotify", procs[p].user, p, IdleSlot)
    /\ UNCHANGED <<nextId, nextPid, artifact, reqs, issued, crashed, kinds>>

\* ---- POST /api/users/:id/feeds, DELETE /api/users/:id/feeds/:feedId ----

AddFeed(u, f) ==
    /\ CanIssue
    /\ users[u].exists
    /\ f \notin users[u].feeds
    /\ users' = [users EXCEPT ![u].feeds = @ \cup {f}]
    /\ issued' = issued + 1
    /\ last' = Ev("addFeed", u, Null, IdleSlot)
    /\ UNCHANGED <<nextId, bridgeProcesses, procs, nextPid, artifact, reqs, crashed, kinds>>

DeleteFeed(u, f) ==
    /\ CanIssue
    /\ users[u].exists
    /\ users' = [users EXCEPT ![u].feeds = @ \ {f}]
    /\ issued' = issued + 1
    /\ last' = Ev("deleteFeed", u, Null, IdleSlot)
    /\ UNCHANGED <<nextId, bridgeProcesses, procs, nextPid, artifact, reqs, crashed, kinds>>

\* the exec callback of some suspended handler fires
ResumeStartSkip == \E q \in Suspended : StartSkip(q)
ResumeStartOk == \E q \in Suspended : StartOk(q)
ResumeStartThrows == \E q \in Suspended, wrote \in BOOLEAN, dies \in BOOLEAN : StartThrows(q, wrote, dies)
ResumeStartNotLaunched == \E q \in Suspended : StartNotLaunched(q)
ResumeStop == \E q \in Suspended : StopResume(q)
ResumeDelete == \E q \in Suspended : DeleteResume(q)

Next ==
    \/ \E ep \in Endpoints, key \in ApiKeys : CreateUser(ep, FALSE, key, FALSE)
    \/ \E u \in UserIds, b \in Bodies : PutNoRestart(u, b)
    \/ \E u \in UserIds, b \in Bodies : PutRestartBegin(u, b)
    \/ \E u \in UserIds : StartReject(u)
    \/ \E u \in UserIds : StartBegin(u)
    \/ ResumeStartSkip
    \/ ResumeStartOk
    \/ ResumeStartThrows
    \/ ResumeStartNotLaunched
    \/ \E u \in UserIds : StopBegin(u)
    \/ ResumeStop
    \/ \E u \in UserIds : DeleteBegin(u)
    \/ ResumeDelete
    \/ \E p \in Pids : ProcExit(p)
    \/ \E p \in Pids : ExitNotify(p)
    \/ \E u \in UserIds, f \in FeedIds : AddFeed(u, f)
    \/ \E u \in UserIds, f \in FeedIds : DeleteFeed(u, f)

Spec == Init /\ [][Next]_vars

\* the exec callback of every suspended handler and every termination
\* notification is eventually delivered by the event loop
Resume == ResumeStartSkip \/ ResumeStartOk \/ ResumeStop \/ ResumeDelete

Notify == \E p \in Pids : ExitNotify(p)

LiveSpec == Init /\ [][Next]_vars /\ WF_vars(Resume) /\ WF_vars(Notify)

\* the exec callbacks are delivered, the termination notifications need not be
ResumeSpec == Init /\ [][Next]_vars /\ WF_vars(Resume)

\* ---- generateUserConfig over every user record ----

\* the records POST /api/users and PUT /api/users/:id can store
Records ==
    [exists : {TRUE}, mcpEndpoint : Endpoints, braveEnabled : BOOLEAN,
     braveApiKey : ApiKeys, weatherEnabled : BOOLEAN, feeds : {{}},
     status : {"stopped"}, pid : {Null}]

ConfigInit ==
    /\ users \in [UserIds -> Records]
    /\ nextId = MaxUsers + 1
    /\ bridgeProcesses = [u \in UserIds |-> Null]
    /\ procs = [p \in Pids |-> NoProc]
    /\ nextPid = 1
    /\ artifact = [u \in UserIds |-> NoFile]
    /\ reqs = EmptyBag
    /\ issued = 0
    /\ crashed = FALSE
    /\ kinds = [u \in UserIds |-> <<>>]
    /\ last = Ev("init", NoUser, Null, IdleSlot)

\* generateUserConfig(user) is called with the record of u
Materialize(u) ==
    /\ users[u].exists
    /\ artifact' = [artifact EXCEPT ![u] = generateUserConfig(users[u], u)]
    /\ last' = Ev("materialize", u, Null, IdleSlot)
    /\ UNCHANGED <<users, nextId, bridgeProcesses, procs, nextPid, reqs, issued,
                   crashed, kinds>>

ConfigNext == \E u \in UserIds : Materialize(u)

ConfigSpec == ConfigInit /\ [][ConfigNext]_vars

\* ---- state descriptions used by the properties ----

Idle == reqs = EmptyBag
NoExitPending == \A p \in Pids : procs[p].state # "exiting"
Quiescent == ~crashed /\ Idle /\ NoExitPending

Registered(u) == bridgeProcesses[u] # Null
RunningRecord(u, p) == users[u].exists /\ users[u].status = "running" /\ users[u].pid = p
StoppedRecord(u) == users[u].exists /\ users[u].status = "stopped" /\ users[u].pid = Null
LiveWorkers(u) == {p \in Pids : procs[p].user = u /\ procs[p].state = "live"}

\* the state of a user after a start, or after a stop
SerialOutcome(u) ==
    \/ Registered(u) /\ RunningRecord(u, bridgeProcesses[u])
    \/ ~Registered(u) /\ StoppedRecord(u)

\* one start and one stop were issued for u, and nothing for any other user
OneStartOneStop(u) ==
    /\ kinds[u] \in {<<"start", "stop">>, <<"stop", "start">>}
    /\ \A v \in UserIds \ {u} : kinds[v] = <<>>

\* C1: a start and a stop issued for the same user, both completed and no exit
\* notification pending, leave the user as one of the two serial orders would:
\* handle registered and record running with its pid, or no handle and record
\* stopped with pid null.
C1_StartStopSerial ==
    \A u \in UserIds : (Quiescent /\ OneStartOneStop(u)) => SerialOutcome(u)

\* C2: every live worker is the one registered for its user (so at most one
\* worker per user is live).
C2_OneLiveWorker ==
    ~crashed => \A p \in Pids :
                    procs[p].state = "live" => bridgeProcesses[procs[p].user] = p

\* C3: when a start returns success, the registry holds the process it spawned
\* and the record is running with that pid.
C3_StartPost ==
    last.op = "startOk" =>
        /\ bridgeProcesses[last.uid] = last.pid
        /\ RunningRecord(last.uid, last.pid)

\* C4: when a stop completes, the registry holds no handle for the user and the
\* record is stopped with pid null.
C4_StopPost ==
    last.op = "stopDone" => (~Registered(last.uid) /\ StoppedRecord(last.uid))

\* the step is a start attempt for u whose endpoint is empty: the start
\* request, or the startUserBridge call of an update that leaves it empty
EmptyEndpointAttempt(u) ==
    /\ last'.uid = u
    /\ \/ last'.op = "startReject"
       \/ last'.op = "putRestartBegin" /\ users'[u].mcpEndpoint = ""
       \/ last'.op = "startSkip"

\* C5: a start attempt for a user whose endpoint is empty leaves the registry
\* entry, the liveness of every worker and the persisted status and pid as
\* they were.
C5_NoEndpointNoAction ==
    [][\A u \in UserIds :
          EmptyEndpointAttempt(u) =>
              /\ bridgeProcesses' = bridgeProcesses
              /\ procs' = procs
              /\ users'[u].status = users[u].status
              /\ users'[u].pid = users[u].pid]_vars

\* C6: a start that fails after the endpoint check (config not written, child
\* not launched) leaves the persisted status and pid of the user as they were.
C6_FailedStartKeepsStatus ==
    [][last'.op \in {"startThrows", "startNotLaunched"} =>
          /\ users'[last'.uid].status = users[last'.uid].status
          /\ users'[last'.uid].pid = users[last'.uid].pid]_vars

\* the original statement of C7: after the termination notification of a worker
\* that ended by itself while registered, the registry does not hold it and the
\* record is stopped with pid null
C7_ExitPost ==
    (last.op = "exitNotify" /\ procs[last.pid].exit = "own") =>
        /\ bridgeProcesses[last.uid] # last.pid
        /\ StoppedRecord(last.uid)

\* p ended by itself while registered, and its notification is pending
EndedByItself(p) == procs[p].state = "exiting" /\ procs[p].exit = "own"

\* p is reconciled: not in the registry, and the record of its user, unless
\* erased, is stopped with pid null
Reconciled(p) ==
    /\ procs[p].state = "gone"
    /\ bridgeProcesses[procs[p].user] # p
    /\ (users[procs[p].user].exists => StoppedRecord(procs[p].user))

\* C7: while the server runs, a registered worker that ends by itself is
\* eventually reconciled: its notification is processed, the registry does not
\* hold it, and the record of its user, unless erased meanwhile, is stopped with
\* pid null, as they are in the state the notification leaves; and a process is
\* spawned only by a step of a start or update request, never by the
\* notification.
C7_ExitReconciled ==
    /\ \A p \in Pids : EndedByItself(p) ~> (Reconciled(p) \/ crashed)
    /\ [][\A p \in Pids : (EndedByItself(p) /\ procs'[p].state = "gone") => Reconciled(p)']_vars
    /\ [][nextPid' # nextPid => last'.op \in {"startOk", "restartOk"}]_vars

C7_Witness ==
    /\ last.op = "exitNotify" /\ procs[last.pid].exit = "own"
    /\ Reconciled(last.pid)
    /\ StoppedRecord(last.uid)

\* C8: when a delete of a running user completes, the registry holds no handle
\* for the user, none of its workers is live, and its record and its config
\* artifact are absent.
C8_DeletePost ==
    (last.op = "deleteDone" /\ last.req.old # Null) =>
        /\ ~Registered(last.uid)
        /\ LiveWorkers(last.uid) = {}
        /\ ~users[last.uid].exists
        /\ ~artifact[last.uid].present

PutStep(u) == last'.uid = u /\ last'.op \in {"putNoRestart", "putRestartBegin"}

\* C10: an update of a user whose persisted status is not running persists the
\* settings of the body and does nothing else: no process is killed or spawned,
\* no start is left pending, the registry and the config artifacts are unchanged
\* and so are the persisted status and pid.
C10_UpdateStoppedNoAction ==
    [][\A u \in UserIds :
          (PutStep(u) /\ users[u].status # "running") =>
              /\ \E b \in Bodies : users' = [users EXCEPT ![u] = ApplyBody(@, b)]
              /\ users'[u].status = users[u].status
              /\ users'[u].pid = users[u].pid
              /\ UNCHANGED <<bridgeProcesses, procs, nextPid, artifact, reqs>>]_vars

C10_Witness ==
    /\ last.op = "putNoRestart"
    /\ users[last.uid].braveEnabled
    /\ Registered(last.uid)
    /\ \E p \in Pids : procs[p].state = "live"

\* u has no registered handle and its record is stopped with pid null
Stopped(u) == ~Registered(u) /\ StoppedRecord(u)

\* C11: stop is idempotent.  A stop run to completion leaves the user without a
\* handle and its record stopped with pid null, and a second stop run to
\* completion right after it changes neither the registry, nor any record, nor
\* any process, at its kill step or at its final write; a stop is accepted for
\* every existing user, with or without a registered handle.
C11_StopIdempotent ==
    /\ [][\A u \in UserIds :
             (last'.op = "stopDone" /\ last'.uid = u /\ last'.run >= 1) => Stopped(u)']_vars
    /\ [][((last'.op = "stopBegin" /\ last'.run >= 1) \/ (last'.op = "stopDone" /\ last'.run >= 2)) =>
             UNCHANGED <<bridgeProcesses, procs, users>>]_vars
    /\ [](\A u \in UserIds :
             (users[u].exists /\ CanIssue /\ HasRoom) => ENABLED StopBegin(u))

C11_Witness ==
    /\ last.op = "stopDone" /\ last.run = 2
    /\ Stopped(last.uid)
    /\ procs[1].user = last.uid /\ procs[1].exit = "killed"

\* C12: the capability keys of a generated config are rss-news always, with
\* the id of the user as its parameter, weather exactly when the weather flag
\* is set, brave-search exactly when the search flag is set and the search key
\* is not empty, and nothing else; search off and weather on gives exactly
\* weather and rss-news.
C12_ConfigKeys ==
    \A u \in UserIds :
        artifact[u].present =>
            /\ "rss-news" \in artifact[u].caps
            /\ artifact[u].rssUser = u
            /\ "weather" \in artifact[u].caps <=> users[u].weatherEnabled
            /\ "brave-search" \in artifact[u].caps <=>
                   (users[u].braveEnabled /\ users[u].braveApiKey # "")
            /\ artifact[u].caps \subseteq {"rss-news", "weather", "brave-search"}
            /\ (~users[u].braveEnabled /\ users[u].weatherEnabled) =>
                   artifact[u].caps = {"weather", "rss-news"}

C12_Witness ==
    /\ last.op = "materialize"
    /\ ~users[last.uid].braveEnabled /\ users[last.uid].weatherEnabled
    /\ artifact[last.uid].caps = {"weather", "rss-news"}
    /\ \E v \in UserIds :
          /\ artifact[v].present
          /\ users[v].braveEnabled /\ users[v].braveApiKey = ""
          /\ "brave-search" \notin artifact[v].caps

\* a handler for user a is suspended at its await
Waiting(a) == \E q \in Suspended : q.uid = a

\* C13: while a handler for one user is suspended, no request for another user
\* is held back: a stop, a delete, a start and an update for the other user are
\* accepted at once, and every suspended handler of the other user can resume
\* and complete, the handler of the first user taking no step.
C13_IndependentUsers ==
    \A a, b \in UserIds :
        (a # b /\ Waiting(a) /\ users[b].exists) =>
            /\ (CanIssue /\ HasRoom) =>
                   /\ ENABLED StopBegin(b)
                   /\ ENABLED DeleteBegin(b)
            /\ (CanIssue /\ HasRoom /\ CanSpawnLater) =>
                   /\ ENABLED (StartBegin(b) \/ StartReject(b))
                   /\ ENABLED (\E body \in Bodies : PutNoRestart(b, body) \/ PutRestartBegin(b, body))
            /\ \A q \in Suspended :
                   q.uid = b =>
                       ENABLED (StartSkip(q) \/ StartOk(q) \/ StopResume(q) \/ DeleteResume(q))

C13_Witness ==
    /\ last.op = "stopDone" /\ last.run >= 1
    /\ \E a \in UserIds : a # last.uid /\ Waiting(a)

\* the step is the kill step of a stop, a delete, a start or a restart of u
KillStep(u) ==
    /\ last'.uid = u
    /\ last'.op \in {"stopBegin", "deleteBegin", "startBegin", "putRestartBegin"}

\* C14: a stop, a start or a delete does not wait for the worker it kills.  Its
\* kill step removes the handle from the registry at once; from then on the
\* handler can resume whether or not the termination notification of the
\* killed worker has been processed; and it completes eventually even if that
\* notification never arrives.
C14_NoWaitForExit ==
    /\ [][\A u \in UserIds : KillStep(u) => bridgeProcesses'[u] = Null]_vars
    /\ [](\A q \in Suspended :
             ENABLED (StartSkip(q) \/ StartOk(q) \/ StopResume(q) \/ DeleteResume(q)))
    /\ \A u \in UserIds : Waiting(u) ~> ~Waiting(u)

C14_Witness ==
    /\ last.op \in {"stopDone", "deleteDone"}
    /\ last.req.old # Null
    /\ procs[last.req.old].state = "exiting"
    /\ procs[last.req.old].exit = "killed"
    /\ ~Registered(last.uid)

\* the step processes the termination notification of p, a process of user u
ExitStep(p, u) == last'.op = "exitNotify" /\ last'.pid = p /\ procs[p].user = u

\* C15: a termination notification processed while the registry holds no
\* handle for the user of the process (a stop removed it) leaves the registry
\* as it is and the record of the user, if there is one, stopped with pid null
\* and otherwise as it was; it changes nothing at all in the store when the
\* record was already so or is absent, and never the record of another user,
\* a config artifact or a suspended handler.
C15_LateExitNoOp ==
    [][\A p \in Pids, u \in UserIds :
          (ExitStep(p, u) /\ ~Registered(u)) =>
              /\ bridgeProcesses' = bridgeProcesses
              /\ users[u].exists =>
                     users' = [users EXCEPT ![u].status = "stopped", ![u].pid = Null]
              /\ (StoppedRecord(u) \/ ~users[u].exists) => users' = users
              /\ \A v \in UserIds \ {u} : users'[v] = users[v]
              /\ UNCHANGED <<artifact, reqs, nextPid>>]_vars

C15_Witness ==
    /\ last.op = "exitNotify" /\ last.pid = 1 /\ nextPid = 2
    /\ procs[1].exit = "killed"
    /\ kinds[last.uid] = <<"start", "stop">>
    /\ Idle
    /\ Stopped(last.uid)

\* C16: the termination notification of a process that a restart killed, once
\* a newer process of the same user is live and registered, leaves the handle
\* of the newer process in the registry and the persisted status and pid of
\* the user as they are.
C16_SupersededExitHarmless ==
    [][\A p \in Pids, u \in UserIds :
          (/\ ExitStep(p, u)
           /\ procs[p].exit = "killed"
           /\ Registered(u) /\ bridgeProcesses[u] # p
           /\ procs[bridgeProcesses[u]].state = "live") =>
              /\ bridgeProcesses'[u] = bridgeProcesses[u]
              /\ users'[u].status = users[u].status
              /\ users'[u].pid = users[u].pid]_vars

\* the settings of a record: everything but status and pid
Settings(rec) == [rec EXCEPT !.status = "stopped", !.pid = Null]

\* the step is the final write of a start, a stop or a delete of u, or the
\* write of the termination notification of a process of u
StatusWrite(u) ==
    /\ last'.uid = u
    /\ last'.op \in {"startOk", "restartOk", "stopDone", "deleteDone", "exitNotify"}

\* C17: the write of a status transition for a user is based on the store as it
\* is when the write is made: it leaves the record of every other user as it
\* was (status, pid, settings, feeds, present or absent), and of its own user
\* it changes the status and pid only, or erases the record if it is a delete.
C17_WriteOnFreshRead ==
    [][\A u \in UserIds :
          StatusWrite(u) =>
              /\ \A v \in UserIds \ {u} : users'[v] = users[v]
              /\ last'.op # "deleteDone" =>
                     /\ users'[u].exists = users[u].exists
                     /\ Settings(users'[u]) = Settings(users[u])]_vars

\* C18: every persisted record with status stopped has pid null, and no step
\* gives a record a pid other than null without the record being running after
\* the step.
C18_StoppedHasNoPid ==
    /\ [](\A u \in UserIds :
             (users[u].exists /\ users[u].status = "stopped") => users[u].pid = Null)
    /\ [][\A u \in UserIds :
             (users'[u].exists /\ users'[u].pid # users[u].pid /\ users'[u].pid # Null) =>
                 users'[u].status = "running"]_vars

C18_Witness ==
    /\ last.op = "stopDone" /\ last.req.old # Null
    /\ users[last.uid].exists
    /\ users[last.uid].status = "stopped" /\ users[last.uid].pid = Null
    /\ procs[last.req.old].user = last.uid

\* C19: a user with no persisted record (never created, or erased) has no
\* handle in the registry, no live worker and no config artifact.
C19_AbsentUserHasNothing ==
    \A u \in UserIds :
        ~users[u].exists =>
            /\ ~Registered(u)
            /\ LiveWorkers(u) = {}
            /\ ~artifact[u].present

\* C20: with no request suspended and no termination notification pending, the
\* config artifact of a user that has a registered worker is the one generated
\* from the current record of the user, and the worker was launched with the
\* endpoint of the current record.
C20_WorkerHasCurrentSettings ==
    \A u \in UserIds :
        (Quiescent /\ Registered(u) /\ users[u].exists) =>
            /\ artifact[u] = generateUserConfig(users[u], u)
            /\ procs[bridgeProcesses[u]].endpoint = users[u].mcpEndpoint

\* the status and pid of every record
StatusOf(store) == [u \in UserIds |-> <<store[u].status, store[u].pid>>]

\* C21: only the final write of a start or restart, of a stop, of a delete, and
\* the termination notification change the persisted status or pid of a user.
\* An update, whatever its body carries (status and pid included), leaves the
\* status and pid of every user as it read them: they change only when the
\* restart it triggers completes.  A feed add or delete leaves the status and
\* pid of every user, the registry and every worker process unchanged.
C21_StatusFrame ==
    /\ [][StatusOf(users') # StatusOf(users) =>
             last'.op \in {"startOk", "restartOk", "startNotLaunched", "stopDone",
                           "deleteDone", "exitNotify"}]_vars
    /\ [][last'.op \in {"putNoRestart", "putRestartBegin"} =>
             StatusOf(users') = StatusOf(users)]_vars
    /\ [][last'.op \in {"addFeed", "deleteFeed"} =>
             /\ StatusOf(users') = StatusOf(users)
             /\ UNCHANGED <<bridgeProcesses, procs, nextPid, artifact, reqs>>]_vars

C21_Witness ==
    /\ last.op = "putNoRestart" /\ last.extra = "running"
    /\ StoppedRecord(last.uid)
    /\ users[last.uid].feeds # {}

====
